---- MODULE Spec2Model ----
(***************************************************************************)
(* OCC -> SOC crosswalk builders of src/python.                            *)
(*                                                                         *)
(* Text is a sequence of one-character strings, so that every conversion   *)
(* (strip, split, regex match, int(float(..)), zero padding) is computed   *)
(* character by character as the Python code computes it.  A null cell     *)
(* (pandas NaN) and an absent result (Python None) are the two sentinels   *)
(* NaN and None, which are not texts.  Scores are exact fractions          *)
(* <<numerator, denominator>>; the code uses binary floats of the same     *)
(* quotients.  Cell texts are ASCII.                                       *)
(***************************************************************************)
EXTENDS Integers, Sequences, FiniteSets, TLC

VARIABLES
    prog,            \* which script runs: "autodetect", "xwalk", "occ"
    workbook,        \* the .xlsx: sequence of sheets, in workbook order
    sheet_arg,       \* --sheet (index of the sheet), or None
    allow_multi_soc, \* --allow-multi-soc
    pd_legacy,       \* pandas 1.x: is_string_dtype is TRUE of every object column
    pc,              \* position in the running script
    idx,             \* loop position of the sheet scan (1-based)
    best,            \* pick_best_sheet: best_name, best_df, best_combo
    sheet_name,      \* the sheet the build uses
    df,              \* the sheet's data frame the build works on
    pairs,           \* the two-column frame: rows of occ_raw, soc_raw, occ, soc
    det,             \* result of column detection
    out,             \* table returned by the build, or None
    csv,             \* table written to --out, or None
    warned,          \* the low-row-count warning was printed
    error,           \* how the run failed, or None
    val,             \* normalize_occ, column_score_*: the argument
    res,             \* normalize_occ, column_score_*: the results of the calls made so far
    max_wait,        \* pull_cps_api: --max-wait
    poll_every,      \* pull_cps_api: --poll-every
    elapsed,         \* pull_cps_api: time.time() - start
    status,          \* pull_cps_api: status
    info,            \* pull_cps_api: the last status response
    polled,          \* pull_cps_api: how the last call of get_status ended
    downloaded,      \* pull_cps_api: the data file was written
    meta             \* pull_cps_api: the .meta.json sidecar was written

\* the state of an extract run of pull_cps_api.py
ipums_run == <<max_wait, poll_every, elapsed, status, info, polled, downloaded, meta>>

vars == <<prog, workbook, sheet_arg, allow_multi_soc, pd_legacy, pc, idx, best,
          sheet_name, df, pairs, det, out, csv, warned, error, val, res, ipums_run>>

-----------------------------------------------------------------------------
(* Sentinels and characters *)

NaN == <<"NaN">>
None == <<"None">>

isna(v) == v = NaN

\* no extract run: the crosswalk builders do not use pull_cps_api.py
NoIpumsRun ==
    /\ max_wait = 0
    /\ poll_every = 0
    /\ elapsed = 0
    /\ status = None
    /\ info = None
    /\ polled = None
    /\ downloaded = FALSE
    /\ meta = FALSE

\* str(v) of a cell read with dtype=str: the text itself; str(nan) is "nan"
str(v) == IF isna(v) THEN <<"n", "a", "n">> ELSE v

DigitChars == <<"0", "1", "2", "3", "4", "5", "6", "7", "8", "9">>

\* \d
Digits == {DigitChars[k] : k \in 1..Len(DigitChars)}

DigitVal(c) == (CHOOSE k \in 1..Len(DigitChars) : DigitChars[k] = c) - 1

\* what str.strip() removes
Whitespace == {" "}

UpperToLower == [c \in {"A", "N", "D", "O", "C", "S"} |->
                   CASE c = "A" -> "a" [] c = "N" -> "n" [] c = "D" -> "d"
                     [] c = "O" -> "o" [] c = "C" -> "c" [] c = "S" -> "s"]

lower(s) == [k \in 1..Len(s) |-> IF s[k] \in DOMAIN UpperToLower THEN UpperToLower[s[k]] ELSE s[k]]

SetMin(S) == CHOOSE x \in S : \A y \in S : x <= y

SetMax(S) == CHOOSE x \in S : \A y \in S : y <= x

strip(s) ==
    LET keep == {k \in 1..Len(s) : s[k] \notin Whitespace}
    IN  IF keep = {} THEN <<>> ELSE SubSeq(s, SetMin(keep), SetMax(keep))

\* s.replace(" ", "")
replace_spaces(s) == SelectSeq(s, LAMBDA c : c # " ")

-----------------------------------------------------------------------------
(* Pattern helpers of build_cps_occ_to_soc_autodetect.py *)

\* DELIMS_RE = [;,/|&]| and   (IGNORECASE): length of the match at position k, 0 if none
DELIMS_RE(s, k) ==
    IF s[k] \in {";", ",", "/", "|", "&"} THEN 1
    ELSE IF k + 4 <= Len(s) /\ lower(SubSeq(s, k, k + 4)) = <<" ", "a", "n", "d", " ">> THEN 5
    ELSE 0

DELIMS_RE_search(s) == \E k \in 1..Len(s) : DELIMS_RE(s, k) > 0

\* DELIMS_RE.split(s) from position k on, cur being the piece read so far
RECURSIVE DELIMS_RE_split(_, _, _)
DELIMS_RE_split(s, k, cur) ==
    IF k > Len(s) THEN <<cur>>
    ELSE LET n == DELIMS_RE(s, k)
         IN  IF n > 0 THEN <<cur>> \o DELIMS_RE_split(s, k + n, <<>>)
             ELSE DELIMS_RE_split(s, k + 1, Append(cur, s[k]))

split_tokens(v) ==
    LET s == strip(IF isna(v) THEN <<>> ELSE str(v))
        pieces == DELIMS_RE_split(s, 1, <<>>)
        stripped == [k \in 1..Len(pieces) |-> strip(pieces[k])]
    IN  IF DELIMS_RE_search(s) THEN SelectSeq(stripped, LAMBDA t : t # <<>>)
        ELSE IF s # <<>> THEN <<s>> ELSE <<>>

\* ^\d{2}-\d{4}$
SOC_SINGLE_RE(s) ==
    /\ Len(s) = 7
    /\ s[3] = "-"
    /\ \A k \in {1, 2, 4, 5, 6, 7} : s[k] \in Digits

\* ^\d{6}$
SOC_DIGITS_RE(s) == Len(s) = 6 /\ \A k \in 1..6 : s[k] \in Digits

is_soc_token_like(tok) ==
    LET s == replace_spaces(tok)
    IN  SOC_SINGLE_RE(s) \/ SOC_DIGITS_RE(s)

normalize_soc_token(tok) ==
    LET s == replace_spaces(tok)
    IN  IF SOC_SINGLE_RE(s) THEN s
        ELSE IF SOC_DIGITS_RE(s) THEN SubSeq(s, 1, 2) \o <<"-">> \o SubSeq(s, 3, 6)
        ELSE None

\* value of a run of decimal digits
RECURSIVE DecVal(_)
DecVal(ds) ==
    IF ds = <<>> THEN 0
    ELSE 10 * DecVal(SubSeq(ds, 1, Len(ds) - 1)) + DigitVal(ds[Len(ds)])

\* float(s) succeeds for a text of digits and dots: at most one dot, at least one digit
float_parses(s) ==
    /\ Cardinality({k \in 1..Len(s) : s[k] = "."}) <= 1
    /\ \E k \in 1..Len(s) : s[k] \in Digits

\* int(float(s)): the digits before the dot (float ignores surrounding blanks)
int_float(s) ==
    LET t == strip(s)
        dots == {k \in 1..Len(t) : t[k] = "."}
    IN  DecVal(IF dots = {} THEN t ELSE SubSeq(t, 1, SetMin(dots) - 1))

\* faulty variant: the range check "0 <= n <= 9999" is left out
is_occ_like_any_size(v) ==
    IF isna(v) THEN FALSE
    ELSE LET s == strip(str(v))
         IN  IF \E k \in 1..Len(s) : s[k] \notin Digits \cup {"."} THEN FALSE
             ELSE float_parses(s)

OccMax == 9999

is_occ_like(v) ==
    IF isna(v) THEN FALSE
    ELSE LET s == strip(str(v))
         IN  IF \E k \in 1..Len(s) : s[k] \notin Digits \cup {"."} THEN FALSE
             ELSE IF ~float_parses(s) THEN FALSE
             ELSE 0 <= int_float(s) /\ int_float(s) <= OccMax

\* decimal digits of n >= 0
RECURSIVE IntToText(_)
IntToText(n) ==
    IF n < 10 THEN <<DigitChars[n + 1]>>
    ELSE Append(IntToText(n \div 10), DigitChars[(n % 10) + 1])

OccWidth == 4

\* faulty variant: f"{n}", no padding
zero_pad_none(n) == IntToText(n)

\* f"{n:04d}"
zero_pad(n) ==
    LET ds == IntToText(n)
    IN  IF Len(ds) >= OccWidth THEN ds
        ELSE [k \in 1..(OccWidth - Len(ds)) |-> "0"] \o ds

normalize_occ(v) ==
    IF ~is_occ_like(v) THEN None
    ELSE zero_pad(int_float(str(v)))

-----------------------------------------------------------------------------
(* Scores: exact fractions <<numerator, denominator>>, denominator > 0 *)

Frac(n, d) == <<n, d>>

Zero == Frac(0, 1)

Leq(a, b) == a[1] * b[2] <= b[1] * a[2]

Less(a, b) == a[1] * b[2] < b[1] * a[2]

Times(a, b) == Frac(a[1] * b[1], a[2] * b[2])

\* x < 0.5
BelowHalf(a) == 2 * a[1] < a[2]

-----------------------------------------------------------------------------
(* Data frames: [cols |-> column names, rows |-> rows of cells] *)

Column(frame, c) == [r \in 1..Len(frame.rows) |-> frame.rows[r][c]]

\* Series.dropna()
dropna(series) == SelectSeq(series, LAMBDA v : ~isna(v))

\* faulty variant: no sampling, every cell is scored
head_all(series, n) == series

\* Series.head(n)
head(series, n) == SubSeq(series, 1, IF Len(series) < n THEN Len(series) ELSE n)

\* DataFrame.dropna(how="all")
dropna_all(frame) ==
    [frame EXCEPT !.rows = SelectSeq(frame.rows,
                                     LAMBDA row : \E c \in 1..Len(row) : ~isna(row[c]))]

\* df.empty
empty(frame) == Len(frame.rows) = 0 \/ Len(frame.cols) = 0

MaxSample == 400

column_score_occ(series, max_sample) ==
    LET vals == dropna(series)
        sample == head(vals, max_sample)
        good == Cardinality({k \in 1..Len(sample) : is_occ_like(sample[k])})
    IN  IF vals = <<>> THEN Zero ELSE Frac(good, Len(sample))

any_soc(v) ==
    LET toks == split_tokens(v)
    IN  \E k \in 1..Len(toks) : is_soc_token_like(toks[k])

column_score_soc(series, max_sample) ==
    LET vals == dropna(series)
        sample == head(vals, max_sample)
        good == Cardinality({k \in 1..Len(sample) : any_soc(sample[k])})
    IN  IF vals = <<>> THEN Zero ELSE Frac(good, Len(sample))

\* pd.api.types.is_string_dtype of a column read with dtype=str: pandas 1.x says yes
\* of every object column, pandas 2.x only if every cell is a string
is_string_dtype(series, legacy) == legacy \/ \A k \in 1..Len(series) : ~isna(series[k])

\* df[c].astype(str).str.strip() on the string columns
pre_trim(frame, legacy) ==
    [frame EXCEPT !.rows =
        [r \in 1..Len(frame.rows) |->
            [c \in 1..Len(frame.cols) |->
                IF is_string_dtype(Column(frame, c), legacy)
                THEN strip(str(frame.rows[r][c]))
                ELSE frame.rows[r][c]]]]

\* max(scores, key=...): the first key, in column order, whose score is maximal
first_max(cands, score) ==
    SetMin({c \in cands : \A e \in cands : Leq(score[e], score[c])})

NoDetection == [occ_col |-> None, soc_col |-> None, occ_score |-> Zero, soc_score |-> Zero]

detect_occ_soc_columns(frame0, legacy) ==
    IF empty(frame0) THEN NoDetection
    ELSE
    LET frame == pre_trim(frame0, legacy)
        cols == 1..Len(frame.cols)
        occ_scores == [c \in cols |-> column_score_occ(Column(frame, c), MaxSample)]
        soc_scores == [c \in cols |-> column_score_soc(Column(frame, c), MaxSample)]
        occ_best == first_max(cols, occ_scores)
        soc_best == first_max(cols, soc_scores)
        soc_candidates == cols \ {occ_best}
        soc_second == first_max(soc_candidates, soc_scores)
    IN  IF soc_best = occ_best
        THEN IF soc_candidates # {}
             THEN [occ_col |-> frame.cols[occ_best], soc_col |-> frame.cols[soc_second],
                   occ_score |-> occ_scores[occ_best], soc_score |-> soc_scores[soc_second]]
             ELSE [occ_col |-> frame.cols[occ_best], soc_col |-> None,
                   occ_score |-> occ_scores[occ_best], soc_score |-> Zero]
        ELSE [occ_col |-> frame.cols[occ_best], soc_col |-> frame.cols[soc_best],
              occ_score |-> occ_scores[occ_best], soc_score |-> soc_scores[soc_best]]

\* position of a column name in the frame
ColIndex(frame, name) == CHOOSE c \in 1..Len(frame.cols) : frame.cols[c] = name

-----------------------------------------------------------------------------
(* The workbooks the scripts are run on *)

\* cell texts
Occ10 == <<"0", "1", "0">>
Occ20 == <<"2", "0", ".", "0">>
SocA == <<"1", "1", "-", "1", "0", "2", "1">>
SocB == <<"1", "1", "1", "0", "2", "2">>
SocAB == <<"1", "1", "-", "1", "0", "2", "1", ",", " ", "1", "1", "-", "1", "0", "2", "2">>
Junk == <<"x">>
Both == <<"0", "0", "1", "0", "2", "1">>
SocMixed == <<"x", "/", "1", "1", "1", "0", "2", "2">>

\* rows of a two-column sheet
RowValues ==
    { <<Occ10, SocA>>, <<Occ10, SocB>>, <<Occ20, SocA>>, <<Occ10, SocAB>>,
      <<Occ10, Junk>>, <<Occ10, NaN>> }

MaxRows == 3

MaxSheets == 2

RECURSIVE SeqsUpTo(_, _)
SeqsUpTo(S, n) ==
    IF n = 0 THEN {<<>>}
    ELSE LET shorter == SeqsUpTo(S, n - 1)
         IN  shorter \cup {Append(q, x) : q \in {p \in shorter : Len(p) = n - 1}, x \in S}

ColA == <<"A">>
ColB == <<"B">>

Sheet(cols, rows) == [readable |-> TRUE, cols |-> cols, rows |-> rows]

Unreadable == [readable |-> FALSE, cols |-> <<>>, rows |-> <<>>]

\* every two-column sheet of up to MaxRows rows
Sheets == {Sheet(<<ColA, ColB>>, rows) : rows \in SeqsUpTo(RowValues, MaxRows)}

\* sheets of a workbook of several sheets: score products 1/3 (soc below 0.5), 1/4,
\* 1, 1, 1 (with an empty row and a row without occ), 0, a single column, and a sheet
\* that cannot be read
SheetValues ==
    { Sheet(<<ColA, ColB>>, << <<Occ10, SocA>>, <<Occ10, Junk>>, <<Occ10, Junk>> >>),
      Sheet(<<ColA, ColB>>, << <<Occ10, SocA>>, <<Junk, Junk>> >>),
      Sheet(<<ColA, ColB>>, << <<Occ10, SocA>>, <<Occ20, SocA>> >>),
      Sheet(<<ColA, ColB>>, << <<Occ20, SocA>>, <<Occ10, SocB>> >>),
      Sheet(<<ColA, ColB>>, << <<Occ10, SocA>>, <<NaN, NaN>>, <<NaN, SocB>> >>),
      Sheet(<<ColA, ColB>>, <<>>),
      Sheet(<<ColA>>, << <<Both>> >>),
      Unreadable }

\* sheets with a cell of one token that is a SOC code and one that is not
MixedSheets ==
    { Sheet(<<ColA, ColB>>, << <<Occ10, SocMixed>>, <<Occ20, SocAB>>, <<Occ10, Junk>> >>),
      Sheet(<<ColA, ColB>>, << <<Occ20, SocMixed>>, <<Occ10, SocMixed>> >>) }

Workbooks ==
    {<<sh>> : sh \in Sheets}
    \cup {<<sh>> : sh \in MixedSheets}
    \cup {wb \in SeqsUpTo(SheetValues, MaxSheets) : Len(wb) >= 2}

\* sheet names, in workbook order
SheetName(k) == <<"S", DigitChars[k + 1]>>

SheetNames(wb) == {SheetName(k) : k \in 1..Len(wb)}

SheetIndex(wb, name) == CHOOSE k \in 1..Len(wb) : SheetName(k) = name

Frame(sh) == [cols |-> sh.cols, rows |-> sh.rows]

NoFrame == [cols |-> <<>>, rows |-> <<>>]

NoTable == [some |-> FALSE, rows |-> <<>>]

Table(rows) == [some |-> TRUE, rows |-> rows]

NoBest == [name |-> None, df |-> NoFrame, combo |-> Frac(-1, 1)]

-----------------------------------------------------------------------------
(* build_cps_occ_to_soc_autodetect.py: build_crosswalk *)

InitAutodetect ==
    /\ NoIpumsRun
    /\ prog = "autodetect"
    /\ workbook \in Workbooks
    /\ sheet_arg \in {None} \cup SheetNames(workbook)
    /\ allow_multi_soc \in BOOLEAN
    /\ pd_legacy \in BOOLEAN
    /\ pc = "start"
    /\ idx = 0
    /\ best = NoBest
    /\ sheet_name = None
    /\ df = NoFrame
    /\ pairs = <<>>
    /\ det = NoDetection
    /\ out = NoTable
    /\ csv = NoTable
    /\ warned = FALSE
    /\ error = "none"
    /\ val = None
    /\ res = <<>>

\* pick_best_sheet with --sheet: read that sheet only
PickRequestedSheet ==
    /\ prog = "autodetect" /\ pc = "start"
    /\ sheet_arg # None
    /\ LET sh == workbook[SheetIndex(workbook, sheet_arg)]
       IN  IF sh.readable
           THEN /\ sheet_name' = sheet_arg
                /\ df' = Frame(sh)
                /\ pc' = "picked"
                /\ error' = error
           ELSE /\ error' = "ReadError"
                /\ pc' = "failed"
                /\ UNCHANGED <<sheet_name, df>>
    /\ UNCHANGED <<ipums_run, prog, workbook, sheet_arg, allow_multi_soc, pd_legacy, idx, best,
                   pairs, det, out, csv, warned, val, res>>

\* pick_best_sheet without --sheet: read_excel(sheet_name=None) reads every sheet
ReadAllSheets ==
    /\ prog = "autodetect" /\ pc = "start"
    /\ sheet_arg = None
    /\ IF \A k \in 1..Len(workbook) : workbook[k].readable
       THEN /\ pc' = "scan"
            /\ idx' = 1
            /\ best' = NoBest
            /\ error' = error
       ELSE /\ error' = "ReadError"
            /\ pc' = "failed"
            /\ UNCHANGED <<idx, best>>
    /\ UNCHANGED <<ipums_run, prog, workbook, sheet_arg, allow_multi_soc, pd_legacy,
                   sheet_name, df, pairs, det, out, csv, warned, val, res>>

\* combo = os * ss of a sheet
Combo(frame, legacy) ==
    LET d == detect_occ_soc_columns(frame, legacy)
    IN  Times(d.occ_score, d.soc_score)

\* faulty variant: if combo >= best_combo
BetterOrEqual(combo, best_combo) == Leq(best_combo, combo)

\* if combo > best_combo
Better(combo, best_combo) == Less(best_combo, combo)

\* one iteration of the loop over all_sheets
ScanSheet ==
    /\ prog = "autodetect" /\ pc = "scan"
    /\ idx <= Len(workbook)
    /\ LET frame == Frame(workbook[idx])
           combo == Combo(frame, pd_legacy)
       IN  best' = IF Better(combo, best.combo)
                   THEN [name |-> SheetName(idx), df |-> frame, combo |-> combo]
                   ELSE best
    /\ idx' = idx + 1
    /\ UNCHANGED <<ipums_run, prog, workbook, sheet_arg, allow_multi_soc, pd_legacy, pc,
                   sheet_name, df, pairs, det, out, csv, warned, error, val, res>>

\* the end of pick_best_sheet: the best sheet, or the first one if none was kept
PickReturn ==
    /\ prog = "autodetect" /\ pc = "scan"
    /\ idx > Len(workbook)
    /\ IF best.name = None
       THEN sheet_name' = SheetName(1) /\ df' = Frame(workbook[1])
       ELSE sheet_name' = best.name /\ df' = best.df
    /\ pc' = "picked"
    /\ UNCHANGED <<ipums_run, prog, workbook, sheet_arg, allow_multi_soc, pd_legacy, idx, best,
                   pairs, det, out, csv, warned, error, val, res>>

\* faulty variant: if not occ_col or not soc_col
DetectionFailsNoScores(d) == d.occ_col = None \/ d.soc_col = None

\* if not occ_col or not soc_col or occ_score < 0.5 or soc_score < 0.5
DetectionFails(d) ==
    \/ d.occ_col = None
    \/ d.soc_col = None
    \/ BelowHalf(d.occ_score)
    \/ BelowHalf(d.soc_score)

\* drop the empty rows, detect the columns, require the minimum quality
DetectColumns ==
    /\ prog = "autodetect" /\ pc = "picked"
    /\ LET frame == dropna_all(df)
           d == detect_occ_soc_columns(frame, pd_legacy)
       IN  /\ df' = frame
           /\ det' = d
           /\ IF DetectionFails(d)
              THEN error' = "ValueError" /\ pc' = "failed"
              ELSE error' = error /\ pc' = "normalize_occ"
    /\ UNCHANGED <<ipums_run, prog, workbook, sheet_arg, allow_multi_soc, pd_legacy, idx, best,
                   sheet_name, pairs, out, csv, warned, val, res>>

\* df[[occ_col, soc_col]] renamed to occ_raw, soc_raw, with occ = normalize_occ(occ_raw)
keep_columns(frame, d) ==
    [r \in 1..Len(frame.rows) |->
        [occ_raw |-> frame.rows[r][ColIndex(frame, d.occ_col)],
         soc_raw |-> frame.rows[r][ColIndex(frame, d.soc_col)],
         occ |-> normalize_occ(frame.rows[r][ColIndex(frame, d.occ_col)]),
         soc |-> None]]

\* keep the chosen columns, normalize OCC, drop the rows whose occ is missing
NormalizeOcc ==
    /\ prog = "autodetect" /\ pc = "normalize_occ"
    /\ pairs' = SelectSeq(keep_columns(df, det), LAMBDA row : row.occ # None)
    /\ pc' = "normalize_soc"
    /\ UNCHANGED <<ipums_run, prog, workbook, sheet_arg, allow_multi_soc, pd_legacy, idx, best,
                   sheet_name, df, det, out, csv, warned, error, val, res>>

\* faulty variant: the first token is taken whatever the number of tokens
strict_soc_first_token(v) ==
    LET toks == split_tokens(v)
    IN  IF Len(toks) = 0 THEN None ELSE normalize_soc_token(toks[1])

strict_soc(v) ==
    LET toks == split_tokens(v)
    IN  IF Len(toks) # 1 THEN None ELSE normalize_soc_token(toks[1])

\* faulty variant: a token that does not normalize empties the whole list
soc_list_all_or_nothing(v) ==
    LET toks == split_tokens(v)
        lst == [k \in 1..Len(toks) |-> normalize_soc_token(toks[k])]
    IN  IF \E k \in 1..Len(lst) : lst[k] = None THEN <<>> ELSE lst

\* [x for x in [normalize_soc_token(t) for t in split_tokens(v)] if x]
soc_list(v) ==
    LET toks == split_tokens(v)
    IN  SelectSeq([k \in 1..Len(toks) |-> normalize_soc_token(toks[k])],
                  LAMBDA x : x # None /\ x # <<>>)

\* df.explode("soc_list"): one row per list element, one row with NaN for an empty list
RECURSIVE explode(_)
explode(rows) ==
    IF rows = <<>> THEN <<>>
    ELSE LET row == Head(rows)
             lst == soc_list(row.soc_raw)
         IN  (IF lst = <<>> THEN <<[row EXCEPT !.soc = NaN]>>
              ELSE [k \in 1..Len(lst) |-> [row EXCEPT !.soc = lst[k]]])
             \o explode(Tail(rows))

expand_soc(rows) == SelectSeq(explode(rows), LAMBDA row : ~isna(row.soc) /\ row.soc # <<>>)

strict_rows(rows) ==
    SelectSeq([r \in 1..Len(rows) |-> [rows[r] EXCEPT !.soc = strict_soc(rows[r].soc_raw)]],
              LAMBDA row : row.soc # None)

\* normalize SOC: expand the cell's tokens, or accept single-token cells only
NormalizeSoc ==
    /\ prog = "autodetect" /\ pc = "normalize_soc"
    /\ pairs' = IF allow_multi_soc THEN expand_soc(pairs) ELSE strict_rows(pairs)
    /\ pc' = "resolve"
    /\ UNCHANGED <<ipums_run, prog, workbook, sheet_arg, allow_multi_soc, pd_legacy, idx, best,
                   sheet_name, df, det, out, csv, warned, error, val, res>>

\* DataFrame.drop_duplicates(): a row is kept unless an earlier row equals it
drop_duplicates(rows) ==
    LET keep == {r \in 1..Len(rows) : \A q \in 1..(r - 1) : rows[q] # rows[r]}
        RECURSIVE pick(_)
        pick(r) == IF r > Len(rows) THEN <<>>
                   ELSE (IF r \in keep THEN <<rows[r]>> ELSE <<>>) \o pick(r + 1)
    IN  pick(1)

\* df[["occ", "soc"]].dropna().drop_duplicates()
occ_soc(rows) ==
    drop_duplicates(SelectSeq([r \in 1..Len(rows) |-> [occ |-> rows[r].occ, soc |-> rows[r].soc]],
                              LAMBDA row : row.occ # None /\ row.soc # None))

\* df.loc[df.duplicated(subset=["occ"], keep=False), "occ"].unique()
ambiguous_occs(rows) ==
    {rows[r].occ : r \in {q \in 1..Len(rows) :
                            \E p \in 1..Len(rows) : p # q /\ rows[p].occ = rows[q].occ}}

\* faulty variant: drop_duplicates(subset=["occ"], keep="first") in place of the drop
drop_ambiguous_keep_first(rows) ==
    LET keep == {r \in 1..Len(rows) : \A q \in 1..(r - 1) : rows[q].occ # rows[r].occ}
        RECURSIVE pick(_)
        pick(r) == IF r > Len(rows) THEN <<>>
                   ELSE (IF r \in keep THEN <<rows[r]>> ELSE <<>>) \o pick(r + 1)
    IN  pick(1)

\* df[~df["occ"].isin(ambiguous_occs)]
drop_ambiguous(rows) ==
    LET ambiguous == ambiguous_occs(rows)
    IN  SelectSeq(rows, LAMBDA row : row.occ \notin ambiguous)

\* drop duplicate pairs, then drop the OCCs that map to more than one SOC
ResolveConflicts ==
    /\ prog = "autodetect" /\ pc = "resolve"
    /\ pairs' = drop_ambiguous(occ_soc(pairs))
    /\ pc' = "write"
    /\ UNCHANGED <<ipums_run, prog, workbook, sheet_arg, allow_multi_soc, pd_legacy, idx, best,
                   sheet_name, df, det, out, csv, warned, error, val, res>>

SmallRows == 100

\* write the CSV, warn if it is small, return the frame
WriteOutput ==
    /\ prog = "autodetect" /\ pc = "write"
    /\ csv' = Table(pairs)
    /\ warned' = (Len(pairs) < SmallRows)
    /\ out' = Table(pairs)
    /\ pc' = "done"
    /\ UNCHANGED <<ipums_run, prog, workbook, sheet_arg, allow_multi_soc, pd_legacy, idx, best,
                   sheet_name, df, pairs, det, error, val, res>>

NextAutodetect ==
    \/ PickRequestedSheet
    \/ ReadAllSheets
    \/ ScanSheet
    \/ PickReturn
    \/ DetectColumns
    \/ NormalizeOcc
    \/ NormalizeSoc
    \/ ResolveConflicts
    \/ WriteOutput

-----------------------------------------------------------------------------
(* build_occ_soc_from_2018_xwalk.py *)

\* sub in s
Contains(sub, s) ==
    \E k \in 1..(Len(s) - Len(sub) + 1) : SubSeq(s, k, k + Len(sub) - 1) = sub

\* OCC_VAL = ^\s*\d{3,4}\s*$
OCC_VAL(s) ==
    LET t == strip(s)
    IN  Len(t) \in {3, 4} /\ \A k \in 1..Len(t) : t[k] \in Digits

\* SOC_VAL1 = ^\s*\d{6}\s*$
SOC_VAL1(s) ==
    LET t == strip(s)
    IN  Len(t) = 6 /\ \A k \in 1..Len(t) : t[k] \in Digits

\* SOC_VAL2 = ^\s*\d{2}\D+\d{4}\s*$
SOC_VAL2(s) ==
    LET t == strip(s)
    IN  /\ Len(t) >= 7
        /\ \A k \in {1, 2} : t[k] \in Digits
        /\ \A k \in 3..(Len(t) - 4) : t[k] \notin Digits
        /\ \A k \in (Len(t) - 3)..Len(t) : t[k] \in Digits

NameBonus == Frac(1, 50)

Plus(a, b) == Frac(a[1] * b[2] + b[1] * a[2], a[2] * b[2])

\* (s != "nan").sum() of s = df[c].astype(str)
tot(series) == Cardinality({k \in 1..Len(series) : str(series[k]) # <<"n", "a", "n">>})

occ_hint(c) ==
    LET cname == lower(c)
    IN  \/ Contains(<<"o", "c", "c">>, cname)
        \/ Contains(<<"2", "0", "1", "8">>, cname)
        \/ Contains(<<"c", "e", "n", "s", "u", "s">>, cname)

soc_hint(c) == Contains(<<"s", "o", "c">>, lower(c))

\* occ_sc of a column with a cell that is not "nan", the name hint added
occ_sc(frame, c) ==
    LET series == Column(frame, c)
        share == Frac(Cardinality({k \in 1..Len(series) : OCC_VAL(str(series[k]))}), tot(series))
    IN  IF occ_hint(frame.cols[c]) THEN Plus(share, NameBonus) ELSE share

soc_sc(frame, c) ==
    LET series == Column(frame, c)
        share == Frac(Cardinality({k \in 1..Len(series) :
                                     SOC_VAL1(str(series[k])) \/ SOC_VAL2(str(series[k]))}),
                      tot(series))
    IN  IF soc_hint(frame.cols[c]) THEN Plus(share, NameBonus) ELSE share

\* the loop "if sc > best_sc: best, best_sc = c, sc" over the columns from c on
RECURSIVE best_column(_, _, _, _, _)
best_column(frame, c, skip, role, acc) ==
    IF c > Len(frame.cols) THEN acc
    ELSE IF c \in skip \/ tot(Column(frame, c)) = 0
         THEN best_column(frame, c + 1, skip, role, acc)
         ELSE LET sc == IF role = "occ" THEN occ_sc(frame, c) ELSE soc_sc(frame, c)
              IN  IF Less(acc.score, sc)
                  THEN best_column(frame, c + 1, skip, role, [col |-> c, score |-> sc])
                  ELSE best_column(frame, c + 1, skip, role, acc)

NoColumn == [col |-> 0, score |-> Frac(-1, 1)]

ColName(frame, c) == IF c = 0 THEN None ELSE frame.cols[c]

score_columns(frame) ==
    LET best_occ == best_column(frame, 1, {}, "occ", NoColumn)
        best_soc == best_column(frame, 1, {}, "soc", NoColumn)
        second_soc == best_column(frame, 1, {best_occ.col}, "soc", NoColumn)
        soc == IF best_occ.col = best_soc.col /\ second_soc.col # 0 THEN second_soc ELSE best_soc
    IN  [occ_col |-> ColName(frame, best_occ.col), soc_col |-> ColName(frame, soc.col),
         occ_score |-> best_occ.score, soc_score |-> soc.score]

digits_only(s) == SelectSeq(s, LAMBDA ch : ch \in Digits)

\* s[-4:]
last4(s) == IF Len(s) <= 4 THEN s ELSE SubSeq(s, Len(s) - 3, Len(s))

\* s.zfill(4)
zfill4(s) == IF Len(s) >= 4 THEN s ELSE [k \in 1..(4 - Len(s)) |-> "0"] \o s

\* s[:n]
first(s, n) == IF Len(s) <= n THEN s ELSE SubSeq(s, 1, n)

\* s[n:]
from(s, n) == IF Len(s) <= n THEN <<>> ELSE SubSeq(s, n + 1, Len(s))

clean_occ(v) == zfill4(last4(digits_only(strip(str(v)))))

clean_soc(v) ==
    LET soc6 == first(digits_only(strip(str(v))), 6)
    IN  first(soc6, 2) \o <<"-">> \o from(soc6, 2)

\* ^\d{4}$
FourDigits(s) == Len(s) = 4 /\ \A k \in 1..4 : s[k] \in Digits

\* order of the characters of the codes: "-" sorts before the digits
Ord(ch) == IF ch = "-" THEN 0 ELSE DigitVal(ch) + 1

RECURSIVE TextLess(_, _)
TextLess(a, b) ==
    IF b = <<>> THEN FALSE
    ELSE IF a = <<>> THEN TRUE
    ELSE IF Head(a) # Head(b) THEN Ord(Head(a)) < Ord(Head(b))
    ELSE TextLess(Tail(a), Tail(b))

\* the order of sort_values(["occ", "soc"])
RowLess(x, y) == TextLess(x.occ, y.occ) \/ (x.occ = y.occ /\ TextLess(x.soc, y.soc))

RECURSIVE insert_sorted(_, _)
insert_sorted(row, sorted) ==
    IF sorted = <<>> THEN <<row>>
    ELSE IF RowLess(row, Head(sorted)) THEN <<row>> \o sorted
    ELSE <<Head(sorted)>> \o insert_sorted(row, Tail(sorted))

RECURSIVE sort_values(_)
sort_values(rows) ==
    IF rows = <<>> THEN <<>>
    ELSE insert_sorted(rows[Len(rows)], sort_values(SubSeq(rows, 1, Len(rows) - 1)))

\* drop_duplicates(subset=["occ"], keep="first")
first_per_occ(rows) ==
    LET keep == {r \in 1..Len(rows) : \A q \in 1..(r - 1) : rows[q].occ # rows[r].occ}
        RECURSIVE pick(_)
        pick(r) == IF r > Len(rows) THEN <<>>
                   ELSE (IF r \in keep THEN <<rows[r]>> ELSE <<>>) \o pick(r + 1)
    IN  pick(1)

clean_map(frame, occ_col, soc_col) ==
    LET raw == [r \in 1..Len(frame.rows) |->
                   [occ |-> clean_occ(frame.rows[r][ColIndex(frame, occ_col)]),
                    soc |-> clean_soc(frame.rows[r][ColIndex(frame, soc_col)])]]
        wellformed == SelectSeq(SelectSeq(raw, LAMBDA row : FourDigits(row.occ)),
                                LAMBDA row : SOC_SINGLE_RE(row.soc))
    IN  first_per_occ(sort_values(drop_duplicates(wellformed)))

\* sheets whose header names carry the hints
ColOcc == <<"O", "C", "C">>
ColSoc == <<"s", "o", "c">>

\* a sheet of 27 rows whose OCC column has 13 cells of 3-4 digits: 13/27 < 0.5 <= 13/27 + 0.02
BonusSheet ==
    Sheet(<<ColOcc, ColSoc>>, [k \in 1..27 |-> IF k <= 13 THEN <<Occ10, SocA>> ELSE <<Occ20, SocA>>])

NamedSheets ==
    { BonusSheet,
      Sheet(<<ColOcc, ColSoc>>, << <<Occ10, SocA>>, <<Occ20, SocA>> >>),
      Sheet(<<ColSoc, ColOcc>>, << <<SocA, Both>>, <<Junk, Junk>> >>),
      Sheet(<<ColOcc>>, << <<Both>> >>),
      Sheet(<<ColA, ColSoc>>, << <<NaN, NaN>>, <<NaN, SocB>> >>) }

XwalkWorkbooks ==
    Workbooks \cup {<<sh>> : sh \in NamedSheets}
              \cup {<<Unreadable, sh>> : sh \in NamedSheets}

InitXwalk ==
    /\ NoIpumsRun
    /\ prog = "xwalk"
    /\ workbook \in XwalkWorkbooks
    /\ sheet_arg \in {None} \cup SheetNames(workbook)
    /\ allow_multi_soc = FALSE
    /\ pd_legacy = FALSE
    /\ pc = "scan"
    /\ idx = 1
    /\ best = NoBest
    /\ sheet_name = None
    /\ df = NoFrame
    /\ pairs = <<>>
    /\ det = NoDetection
    /\ out = NoTable
    /\ csv = NoTable
    /\ warned = FALSE
    /\ error = "none"
    /\ val = None
    /\ res = <<>>

\* sheet_iter = [args.sheet] if args.sheet else sheets
sheet_iter == IF sheet_arg # None THEN <<sheet_arg>> ELSE [k \in 1..Len(workbook) |-> SheetName(k)]

\* occ_col and soc_col and occ_col != soc_col and occ_sc >= 0.50 and soc_sc >= 0.50
Chosen(d) ==
    /\ d.occ_col # None
    /\ d.soc_col # None
    /\ d.occ_col # d.soc_col
    /\ ~BelowHalf(d.occ_score)
    /\ ~BelowHalf(d.soc_score)

\* one iteration of main's loop: a sheet that cannot be read is skipped
XwalkScanSheet ==
    /\ prog = "xwalk" /\ pc = "scan"
    /\ idx <= Len(sheet_iter)
    /\ LET sh == workbook[SheetIndex(workbook, sheet_iter[idx])]
           d == score_columns(Frame(sh))
       IN  IF ~sh.readable
           THEN /\ idx' = idx + 1
                /\ UNCHANGED <<pc, det, df, sheet_name>>
           ELSE /\ det' = d
                /\ IF Chosen(d)
                   THEN /\ df' = Frame(sh)
                        /\ sheet_name' = sheet_iter[idx]
                        /\ pc' = "chosen"
                        /\ idx' = idx
                   ELSE /\ idx' = idx + 1
                        /\ UNCHANGED <<pc, df, sheet_name>>
    /\ UNCHANGED <<ipums_run, prog, workbook, sheet_arg, allow_multi_soc, pd_legacy, best,
                   pairs, out, csv, warned, error, val, res>>

\* no sheet was chosen: sys.exit(2)
XwalkNoSheet ==
    /\ prog = "xwalk" /\ pc = "scan"
    /\ idx > Len(sheet_iter)
    /\ error' = "exit2"
    /\ pc' = "failed"
    /\ UNCHANGED <<ipums_run, prog, workbook, sheet_arg, allow_multi_soc, pd_legacy, idx, best,
                   sheet_name, df, pairs, det, out, csv, warned, val, res>>

\* clean_map, sys.exit(3) on an empty map, else write the CSV
XwalkCleanMap ==
    /\ prog = "xwalk" /\ pc = "chosen"
    /\ LET cleaned == clean_map(df, det.occ_col, det.soc_col)
       IN  /\ pairs' = cleaned
           /\ IF Len(cleaned) = 0
              THEN error' = "exit3" /\ pc' = "failed" /\ csv' = csv
              ELSE error' = error /\ pc' = "done" /\ csv' = Table(cleaned)
    /\ UNCHANGED <<ipums_run, prog, workbook, sheet_arg, allow_multi_soc, pd_legacy, idx, best,
                   sheet_name, df, det, out, warned, val, res>>

NextXwalk ==
    \/ XwalkScanSheet
    \/ XwalkNoSheet
    \/ XwalkCleanMap

-----------------------------------------------------------------------------
(* A run of one of the two builders on a workbook *)

Init == InitAutodetect \/ InitXwalk

Next == NextAutodetect \/ NextXwalk

Spec == Init /\ [][Next]_vars

-----------------------------------------------------------------------------
(* Calls of normalize_occ: on a value, then on its own result *)

MaxTextLen == 3

TextChars == {"0", "1", "9", ".", "-", " ", "x"}

\* str(v) of an integer v >= 0
IntTexts == {[text |-> IntToText(v), int |-> v] : v \in 0..OccMax}

\* other values: every text of up to MaxTextLen characters, longer numbers inside and
\* outside the range, and a null
OtherValues ==
    SeqsUpTo(TextChars, MaxTextLen)
    \cup { NaN, Occ20, Both,
           <<"1", "0", "0", "0", "0">>,
           <<"9", "9", "9", "9", ".", "9">>,
           <<"1", "0", "0", "0", "0", ".", "0">>,
           <<" ", "0", "0", "0", "7", " ">>,
           <<"1", ".", "0", ".", "0">> }

OccValues == IntTexts \cup {[text |-> t, int |-> -1] : t \in OtherValues}

InitOcc ==
    /\ NoIpumsRun
    /\ prog = "occ"
    /\ val \in OccValues
    /\ res = <<>>
    /\ pc = "start"
    /\ workbook = <<>>
    /\ sheet_arg = None
    /\ allow_multi_soc = FALSE
    /\ pd_legacy = FALSE
    /\ idx = 0
    /\ best = NoBest
    /\ sheet_name = None
    /\ df = NoFrame
    /\ pairs = <<>>
    /\ det = NoDetection
    /\ out = NoTable
    /\ csv = NoTable
    /\ warned = FALSE
    /\ error = "none"

\* normalize_occ(val)
CallNormalizeOcc ==
    /\ prog = "occ" /\ pc = "start"
    /\ res' = <<normalize_occ(val.text)>>
    /\ pc' = "called"
    /\ UNCHANGED <<ipums_run, prog, workbook, sheet_arg, allow_multi_soc, pd_legacy, idx, best,
                   sheet_name, df, pairs, det, out, csv, warned, error, val>>

\* normalize_occ of the result of the first call
CallNormalizeOccAgain ==
    /\ prog = "occ" /\ pc = "called"
    /\ res[1] # None
    /\ res' = Append(res, normalize_occ(res[1]))
    /\ pc' = "done"
    /\ UNCHANGED <<ipums_run, prog, workbook, sheet_arg, allow_multi_soc, pd_legacy, idx, best,
                   sheet_name, df, pairs, det, out, csv, warned, error, val>>

NextOcc == CallNormalizeOcc \/ CallNormalizeOccAgain

SpecOcc == InitOcc /\ [][NextOcc]_vars

-----------------------------------------------------------------------------
(* build_cps_occ_to_soc_from_2018_file.py *)

\* Series.str.extract(pat) for a pattern that is a sequence of character classes: the
\* first match, NaN if there is none
str_extract(s, pat) ==
    LET hits == {k \in 1..(Len(s) - Len(pat) + 1) :
                    \A j \in 1..Len(pat) : s[k + j - 1] \in pat[j]}
    IN  IF hits = {} THEN NaN ELSE SubSeq(s, SetMin(hits), SetMin(hits) + Len(pat) - 1)

\* r'(\\d{4})': in a raw string \\ is the regex for one backslash, followed by d{4}
OccPattern == <<{"\\"}, {"d"}, {"d"}, {"d"}, {"d"}>>

\* r'(\\d{2}-\\d{4})'
SocPattern == <<{"\\"}, {"d"}, {"d"}, {"-"}, {"\\"}, {"d"}, {"d"}, {"d"}, {"d"}>>

\* s.endswith('0000')
endswith0000(s) == Len(s) >= 4 /\ SubSeq(s, Len(s) - 3, Len(s)) = <<"0", "0", "0", "0">>

\* the order of sort_values(['occ','score','row'], ascending=[True, False, True])
PreferLess(x, y) ==
    \/ TextLess(x.occ, y.occ)
    \/ x.occ = y.occ /\ x.score > y.score
    \/ x.occ = y.occ /\ x.score = y.score /\ x.row < y.row

RECURSIVE insert_preferred(_, _)
insert_preferred(row, sorted) ==
    IF sorted = <<>> THEN <<row>>
    ELSE IF PreferLess(row, Head(sorted)) THEN <<row>> \o sorted
    ELSE <<Head(sorted)>> \o insert_preferred(row, Tail(sorted))

RECURSIVE sort_preferred(_)
sort_preferred(rows) ==
    IF rows = <<>> THEN <<>>
    ELSE insert_preferred(rows[Len(rows)], sort_preferred(SubSeq(rows, 1, Len(rows) - 1)))

CensusCode == <<"2018 Census Code">>
SocCode == <<"2018 SOC Code">>

\* build(): extract, drop, score, sort, keep the first row of each occ
build(frame) ==
    LET t == [r \in 1..Len(frame.rows) |->
                 [census |-> frame.rows[r][ColIndex(frame, CensusCode)],
                  soccode |-> frame.rows[r][ColIndex(frame, SocCode)],
                  occ |-> str_extract(str(frame.rows[r][ColIndex(frame, CensusCode)]), OccPattern),
                  soc |-> str_extract(str(frame.rows[r][ColIndex(frame, SocCode)]), SocPattern)]]
        kept == drop_duplicates(SelectSeq(t, LAMBDA row : ~isna(row.occ) /\ ~isna(row.soc)))
        scored == [r \in 1..Len(kept) |->
                      [occ |-> kept[r].occ, soc |-> kept[r].soc,
                       score |-> IF endswith0000(kept[r].soc) THEN 0 ELSE 1,
                       row |-> r - 1]]
        firsts == first_per_occ(sort_preferred(scored))
    IN  [r \in 1..Len(firsts) |-> [occ |-> firsts[r].occ, soc |-> firsts[r].soc]]

\* cells of the code list: codes as the list has them, and texts that hold the
\* characters \dddd and \dd-\dddd
Occ0010 == <<"0", "0", "1", "0">>
Soc0000 == <<"1", "1", "-", "0", "0", "0", "0">>
OccLiteral == <<"\\", "d", "d", "d", "d">>
SocLiteral == <<"\\", "d", "d", "-", "\\", "d", "d", "d", "d">>
SocLiteral0 == <<"\\", "d", "d", "-", "\\", "d", "d", "d", "d", "0", "0", "0", "0">>

FileRowValues ==
    { <<Occ0010, SocA>>, <<Occ0010, Soc0000>>, <<Occ20, SocA>>, <<NaN, SocA>>,
      <<OccLiteral, SocLiteral>>, <<OccLiteral, SocLiteral0>>, <<OccLiteral, SocA>> }

FileSheets ==
    {Sheet(<<CensusCode, SocCode>>, rows) : rows \in SeqsUpTo(FileRowValues, MaxRows)}
    \cup {Sheet(<<ColA, SocCode>>, << <<Occ0010, SocA>> >>), Unreadable}

InitFile ==
    /\ NoIpumsRun
    /\ prog = "file"
    /\ workbook \in {<<sh>> : sh \in FileSheets}
    /\ sheet_arg = None
    /\ allow_multi_soc = FALSE
    /\ pd_legacy = FALSE
    /\ pc = "start"
    /\ idx = 0
    /\ best = NoBest
    /\ sheet_name = None
    /\ df = NoFrame
    /\ pairs = <<>>
    /\ det = NoDetection
    /\ out = NoTable
    /\ csv = NoTable
    /\ warned = FALSE
    /\ error = "none"
    /\ val = None
    /\ res = <<>>

\* df = build(args.xlsx): read the sheet, require the two columns, build the table
FileBuild ==
    /\ prog = "file" /\ pc = "start"
    /\ LET sh == workbook[1]
       IN  IF ~sh.readable
           THEN /\ error' = "ReadError" /\ pc' = "failed"
                /\ UNCHANGED <<df, pairs, out>>
           ELSE IF \E c \in {CensusCode, SocCode} : \A k \in 1..Len(sh.cols) : sh.cols[k] # c
           THEN /\ error' = "SystemExit" /\ pc' = "failed"
                /\ df' = Frame(sh)
                /\ UNCHANGED <<pairs, out>>
           ELSE /\ df' = Frame(sh)
                /\ pairs' = build(Frame(sh))
                /\ out' = Table(build(Frame(sh)))
                /\ pc' = "built"
                /\ error' = error
    /\ UNCHANGED <<ipums_run, prog, workbook, sheet_arg, allow_multi_soc, pd_legacy, idx, best,
                   sheet_name, det, csv, warned, val, res>>

\* df.to_csv(args.out, index=False)
FileWrite ==
    /\ prog = "file" /\ pc = "built"
    /\ csv' = Table(pairs)
    /\ pc' = "done"
    /\ UNCHANGED <<ipums_run, prog, workbook, sheet_arg, allow_multi_soc, pd_legacy, idx, best,
                   sheet_name, df, pairs, det, out, warned, error, val, res>>

NextFile == FileBuild \/ FileWrite

SpecFile == InitFile /\ [][NextFile]_vars

-----------------------------------------------------------------------------
(* Calls of column_score_occ and column_score_soc: on a column, then on the column
   with one more cell at its end *)

MaxSeries == 4

ScoreCells == {Occ10, SocA, Junk, NaN}

\* columns longer than the default sample: MaxSample cells "11-1021" after k nulls,
\* and MaxSample - 1 of them after an OCC cell
LongSeries ==
    {[k \in 1..(MaxSample + n) |-> IF k <= n THEN NaN ELSE SocA] : n \in 0..1}
    \cup {[k \in 1..MaxSample |-> IF k = 1 THEN Occ10 ELSE SocA]}

\* max_sample: small samples, and the default
SampleCaps == {1, 2, MaxSample}

ScoreArgs ==
    {[series |-> ser, cap |-> cap] : ser \in SeqsUpTo(ScoreCells, MaxSeries) \cup LongSeries,
                                     cap \in SampleCaps}

Scores(arg) ==
    [occ |-> column_score_occ(arg.series, arg.cap), soc |-> column_score_soc(arg.series, arg.cap)]

InitScore ==
    /\ NoIpumsRun
    /\ prog = "score"
    /\ val \in ScoreArgs
    /\ res = <<>>
    /\ pc = "start"
    /\ workbook = <<>>
    /\ sheet_arg = None
    /\ allow_multi_soc = FALSE
    /\ pd_legacy = FALSE
    /\ idx = 0
    /\ best = NoBest
    /\ sheet_name = None
    /\ df = NoFrame
    /\ pairs = <<>>
    /\ det = NoDetection
    /\ out = NoTable
    /\ csv = NoTable
    /\ warned = FALSE
    /\ error = "none"

\* column_score_occ(series, max_sample), column_score_soc(series, max_sample)
CallScores ==
    /\ prog = "score" /\ pc = "start"
    /\ res' = <<Scores(val)>>
    /\ pc' = "scored"
    /\ UNCHANGED <<ipums_run, prog, workbook, sheet_arg, allow_multi_soc, pd_legacy, idx, best,
                   sheet_name, df, pairs, det, out, csv, warned, error, val>>

\* the same calls on the column with one more cell after the sample
CallScoresLonger ==
    /\ prog = "score" /\ pc = "scored"
    /\ Len(dropna(val.series)) >= val.cap
    /\ \E cell \in ScoreCells :
          /\ val' = [val EXCEPT !.series = Append(val.series, cell)]
          /\ res' = Append(res, Scores([val EXCEPT !.series = Append(val.series, cell)]))
    /\ pc' = "rescored"
    /\ UNCHANGED <<ipums_run, prog, workbook, sheet_arg, allow_multi_soc, pd_legacy, idx, best,
                   sheet_name, df, pairs, det, out, csv, warned, error>>

NextScore == CallScores \/ CallScoresLonger

SpecScore == InitScore /\ [][NextScore]_vars

-----------------------------------------------------------------------------
(* pull_cps_api.py: main from the polling loop on *)

MaxWait == 3

\* seconds a call of get_status takes
MaxDelay == 1

\* statuses of an extract; Terminal are those that end the polling
Terminal == {"completed", "failed", "canceled"}

Statuses == {"queued", "started"} \cup Terminal

\* the JSON of a status response: a status, or none, and a download link, or none
Absent == "absent"

Responses == [status : Statuses \cup {Absent}, link : BOOLEAN]

\* how get_status ends: a response, requests.HTTPError from raise_for_status, or
\* another exception of requests.get (ConnectionError, Timeout) or of r.json()
HTTPError == [raised |-> "HTTPError"]
OtherError == [raised |-> "Exception"]

\* before the first call of get_status
NoPoll == [raised |-> "none"]

Outcomes == Responses \cup {HTTPError, OtherError}

InitIpums ==
    /\ prog = "ipums"
    /\ max_wait \in 0..MaxWait
    /\ poll_every \in 1..2
    /\ elapsed = 0
    /\ status = "queued"
    /\ info = None
    /\ polled = NoPoll
    /\ downloaded = FALSE
    /\ meta = FALSE
    /\ pc = "poll"
    /\ error = "none"
    /\ workbook = <<>>
    /\ sheet_arg = None
    /\ allow_multi_soc = FALSE
    /\ pd_legacy = FALSE
    /\ idx = 0
    /\ best = NoBest
    /\ sheet_name = None
    /\ df = NoFrame
    /\ pairs = <<>>
    /\ det = NoDetection
    /\ out = NoTable
    /\ csv = NoTable
    /\ warned = FALSE
    /\ val = None
    /\ res = <<>>

\* what an extract run leaves alone
build_run == <<prog, workbook, sheet_arg, allow_multi_soc, pd_legacy, idx, best,
               sheet_name, df, pairs, det, out, csv, warned, val, res>>

\* if time.time() - start > args.max_wait: raise SystemExit
PollTimeout ==
    /\ prog = "ipums" /\ pc = "poll"
    /\ elapsed > max_wait
    /\ error' = "timeout"
    /\ pc' = "failed"
    /\ UNCHANGED <<build_run, ipums_run>>

\* one iteration of the loop: sleep, get_status, break on a terminal status; a
\* requests.HTTPError is caught and the loop goes on, any other exception leaves main
Poll ==
    /\ prog = "ipums" /\ pc = "poll"
    /\ elapsed <= max_wait
    /\ \E delay \in 0..MaxDelay : elapsed' = elapsed + poll_every + delay
    /\ \E outcome \in Outcomes :
          /\ polled' = outcome
          /\ IF outcome = HTTPError
             THEN UNCHANGED <<info, status, pc, error>>
             ELSE IF outcome = OtherError
             THEN /\ error' = "exception" /\ pc' = "failed"
                  /\ UNCHANGED <<info, status>>
             ELSE /\ info' = outcome
                  /\ status' = IF outcome.status = Absent THEN status ELSE outcome.status
                  /\ pc' = IF status' \in Terminal THEN "ended" ELSE "poll"
                  /\ error' = error
    /\ UNCHANGED <<build_run, max_wait, poll_every, downloaded, meta>>

\* after the loop: a status other than completed is an error; the data url comes from
\* the status response or from list_downloads, and without one the run is an error
AfterLoop ==
    /\ prog = "ipums" /\ pc = "ended"
    /\ IF status # "completed"
       THEN error' = "ended" /\ pc' = "failed"
       ELSE \E listed \in BOOLEAN :
               IF info.link \/ listed
               THEN error' = error /\ pc' = "download"
               ELSE error' = "no_url" /\ pc' = "failed"
    /\ UNCHANGED <<build_run, ipums_run>>

\* stream_download and maybe_gunzip: the file is written, or the request fails
Download ==
    /\ prog = "ipums" /\ pc = "download"
    /\ \E ok \in BOOLEAN :
          IF ok THEN downloaded' = TRUE /\ pc' = "meta" /\ error' = error
          ELSE downloaded' = FALSE /\ pc' = "failed" /\ error' = "exception"
    /\ UNCHANGED <<build_run, max_wait, poll_every, elapsed, status, info, polled, meta>>

\* meta_path.write_text(json.dumps(meta))
WriteMeta ==
    /\ prog = "ipums" /\ pc = "meta"
    /\ meta' = TRUE
    /\ pc' = "done"
    /\ UNCHANGED <<build_run, max_wait, poll_every, elapsed, status, info, polled,
                   downloaded, error>>

NextIpums ==
    \/ PollTimeout
    \/ Poll
    \/ AfterLoop
    \/ Download
    \/ WriteMeta

SpecIpums == InitIpums /\ [][NextIpums]_vars

-----------------------------------------------------------------------------
(* The claims *)

AsciiDigits == {"0", "1", "2", "3", "4", "5", "6", "7", "8", "9"}

\* exactly 4 ASCII digits
IsOccCode(s) == Len(s) = 4 /\ \A k \in 1..4 : s[k] \in AsciiDigits

\* exactly NN-NNNN
IsSocCode(s) ==
    /\ Len(s) = 7
    /\ \A k \in 1..7 : IF k = 3 THEN s[k] = "-" ELSE s[k] \in AsciiDigits

SocsOf(rows, occ) == {rows[r].soc : r \in {q \in 1..Len(rows) : rows[q].occ = occ}}

OccsOf(rows) == {rows[r].occ : r \in 1..Len(rows)}

\* the rows of a frame that carry the occ
RowsOf(rows, occ) == {r \in 1..Len(rows) : rows[r].occ = occ}

\* C2: in strict mode the conflict-resolution step removes every row of an occ that
\* maps to more than one distinct soc, keeps exactly one row (occ, soc) for an occ with
\* exactly one distinct soc, and so leaves no occ on more than one row.
C2_StrictDropsAmbiguous ==
    [][(prog = "autodetect" /\ pc = "resolve" /\ ~allow_multi_soc) =>
          /\ \A occ \in OccsOf(pairs) :
                IF Cardinality(SocsOf(pairs, occ)) > 1
                THEN RowsOf(pairs', occ) = {}
                ELSE /\ Cardinality(RowsOf(pairs', occ)) = 1
                     /\ SocsOf(pairs', occ) = SocsOf(pairs, occ)
          /\ OccsOf(pairs') \subseteq OccsOf(pairs)
          /\ \A p, q \in 1..Len(pairs') : pairs'[p].occ = pairs'[q].occ => p = q]_vars

\* a strict build is past conflict resolution with one occ kept out of a sheet that
\* also gave another occ two distinct socs
C2_Witness ==
    /\ prog = "autodetect" /\ pc = "write" /\ ~allow_multi_soc
    /\ Len(pairs) = 1
    /\ \E r1, r2 \in 1..Len(df.rows) :
          /\ df.rows[r1] = <<Occ10, SocA>>
          /\ df.rows[r2] = <<Occ10, SocB>>
    /\ \E r \in 1..Len(df.rows) : df.rows[r] = <<Occ20, SocA>>

\* the distinct (occ, soc) pairs of a frame
PairSet(rows) == {<<rows[r].occ, rows[r].soc>> : r \in 1..Len(rows)}

\* C3: in expand mode the conflict-resolution step removes nothing but exact duplicate
\* (occ, soc) pairs: every distinct pair that survives normalization is in the output.
C3_ExpandKeepsAllPairs ==
    [][(prog = "autodetect" /\ pc = "resolve" /\ allow_multi_soc) =>
          PairSet(pairs') = PairSet(pairs)]_vars

\* C4: column detection never returns the same column for the occ role and the soc
\* role (the soc selection is absent when no other column exists).
C4_DistinctColumns == det.occ_col # None => det.soc_col # det.occ_col

\* x < 0.5, for a score <<n, d>>
ScoreBelowHalf(x) == 2 * x[1] < x[2]

DetectionDone == prog = "autodetect" /\ pc \notin {"start", "scan", "picked"} /\ error # "ReadError"

\* C5: when, on the sheet used for the build, a chosen column is absent or a chosen
\* column's score is below 0.5, the build has failed with the detection error, nothing
\* was normalized and no table is returned or written.
C5_DetectionFailureIsFatal ==
    (/\ DetectionDone
     /\ \/ det.occ_col = None
        \/ det.soc_col = None
        \/ ScoreBelowHalf(det.occ_score)
        \/ ScoreBelowHalf(det.soc_score))
    => /\ pc = "failed"
       /\ error = "ValueError"
       /\ pairs = <<>>
       /\ ~out.some
       /\ ~csv.some

\* detection found both columns, the occ score is 1 and the soc score is below 0.5: the
\* build failed
C5_Witness ==
    /\ DetectionDone
    /\ det.occ_col # None /\ det.soc_col # None
    /\ ~ScoreBelowHalf(det.occ_score)
    /\ ScoreBelowHalf(det.soc_score)
    /\ det.soc_score[1] > 0
    /\ pc = "failed"

\* the frame the build detects the columns of
BuildFrame(sh) == pre_trim(dropna_all(Frame(sh)), pd_legacy)

\* a sheet has two distinct columns whose occ_score and soc_score are both >= 0.5
Qualifies(sh) ==
    /\ sh.readable
    /\ \E a, b \in 1..Len(sh.cols) :
          /\ a # b
          /\ ~ScoreBelowHalf(column_score_occ(Column(BuildFrame(sh), a), MaxSample))
          /\ ~ScoreBelowHalf(column_score_soc(Column(BuildFrame(sh), b), MaxSample))

\* C6: with automatic sheet selection the build fails with the column-detection error
\* only when no sheet of the workbook has such a pair of columns.
C6_FailsOnlyIfNoSheetQualifies ==
    (prog = "autodetect" /\ sheet_arg = None /\ error = "ValueError")
    => \A k \in 1..Len(workbook) : ~Qualifies(workbook[k])

\* C7: a build whose final table has no rows fails and neither returns nor writes a
\* table; a build whose final table has 1 to 99 rows succeeds, returns the table and
\* warns about the low row count.
C7_EmptyIsFatalSmallWarns ==
    prog = "autodetect" =>
        /\ (pc = "done" => Len(pairs) > 0)
        /\ (Len(pairs) = 0 => ~out.some /\ ~csv.some)
        /\ (pc = "done" /\ Len(pairs) \in 1..99 => out = Table(pairs) /\ csv = out /\ warned)

\* os * ss of a sheet of the workbook, as the scan computes it
Product(k) == Combo(Frame(workbook[k]), pd_legacy)

\* pick_best_sheet has just returned from the scan of all sheets
AutoPicked == prog = "autodetect" /\ sheet_arg = None /\ pc = "picked"

\* C8: with no explicit sheet the selected sheet has the maximal product over all
\* sheets, and every sheet before it in workbook order has a strictly smaller product.
C8_FirstMaximalProduct ==
    AutoPicked =>
        LET k == SheetIndex(workbook, sheet_name)
        IN  /\ \A j \in 1..Len(workbook) : Leq(Product(j), Product(k))
            /\ \A j \in 1..(k - 1) : Less(Product(j), Product(k))

\* two sheets with different tables tie on a product above 0 and the first is selected
C8_Witness ==
    /\ AutoPicked
    /\ Len(workbook) >= 2
    /\ workbook[1] # workbook[2]
    /\ sheet_name = SheetName(1)
    /\ Leq(Product(1), Product(2)) /\ Leq(Product(2), Product(1))
    /\ Product(1)[1] > 0

\* v zero-padded to 4 digits, for 0 <= v <= 9999
Pad4(v) ==
    LET d(k) == DigitChars[k + 1]
    IN  <<d(v \div 1000), d((v \div 100) % 10), d((v \div 10) % 10), d(v % 10)>>

\* the integer a text of ASCII digits denotes
RECURSIVE Numeral(_)
Numeral(s) ==
    IF s = <<>> THEN 0
    ELSE 10 * Numeral(SubSeq(s, 1, Len(s) - 1))
         + (CHOOSE n \in 0..9 : DigitChars[n + 1] = s[Len(s)])

\* not OCC-like: a null, a character other than digits and ".", no number, or a number
\* outside [0, 9999]
NotOccLike(t) ==
    \/ t = NaN
    \/ LET body == SelectSeq(t, LAMBDA c : c # " ")
           inner == {k \in 1..Len(t) : t[k] # " "}
           dots == {k \in 1..Len(body) : body[k] = "."}
           whole == IF dots = {} THEN body ELSE SubSeq(body, 1, SetMin(dots) - 1)
       IN  \/ \E k \in 1..Len(body) : body[k] \notin AsciiDigits \cup {"."}
           \/ \E k \in 1..Len(t) : t[k] = " " /\ \E a, b \in inner : a < k /\ k < b
           \/ Cardinality(dots) > 1
           \/ \A k \in 1..Len(body) : body[k] = "."
           \/ Numeral(whole) > 9999

\* C9: normalize_occ of the decimal text of an integer v in [0, 9999] is v zero-padded
\* to 4 digits; normalize_occ of a result of normalize_occ is that result; and a value
\* that is not OCC-like gives absent, every other value 4 digits.
C9_NormalizeOcc ==
    (prog = "occ" /\ Len(res) >= 1) =>
        /\ (val.int >= 0 => res[1] = Pad4(val.int))
        /\ (Len(res) = 2 => res[2] = res[1])
        /\ (NotOccLike(val.text) <=> res[1] = None)
        /\ (res[1] # None => IsOccCode(res[1]))

\* the text "7" gave "0007", and normalizing "0007" again gave "0007"
C9_Witness ==
    /\ prog = "occ" /\ pc = "done"
    /\ val.int = 7
    /\ res = << <<"0", "0", "0", "7">>, <<"0", "0", "0", "7">> >>

\* a text with a character that is no digit, a text that does not parse and a number
\* outside the range gave absent
C9_AbsentReached ==
    /\ prog = "occ" /\ pc = "called"
    /\ val.text \in { <<"1", "x">>, <<".">>, <<"1", "0", "0", "0", "0">> }
    /\ res = <<None>>

\* C10: under the strict policy the SOC normalization keeps a row if and only if its
\* soc cell splits into exactly one token and that token normalizes to NN-NNNN, and the
\* row's soc is then that normalized token; every other row is dropped.
C10_StrictSingleToken ==
    [][(prog = "autodetect" /\ pc = "normalize_soc" /\ ~allow_multi_soc) =>
          LET toks(r) == split_tokens(pairs[r].soc_raw)
              kept == {r \in 1..Len(pairs) :
                          Len(toks(r)) = 1 /\ normalize_soc_token(toks(r)[1]) # None}
          IN  /\ Len(pairs') = Cardinality(kept)
              /\ \A r \in kept :
                    \E q \in 1..Len(pairs') :
                        /\ q = Cardinality({x \in kept : x <= r})
                        /\ pairs'[q].occ = pairs[r].occ
                        /\ pairs'[q].soc_raw = pairs[r].soc_raw
                        /\ pairs'[q].soc = normalize_soc_token(toks(r)[1])
                        /\ IsSocCode(pairs'[q].soc)]_vars

\* a strict build kept one row and dropped a null cell, a two-token cell and a cell
\* whose single token does not normalize
C10_Witness ==
    /\ prog = "autodetect" /\ pc = "resolve" /\ ~allow_multi_soc
    /\ Len(pairs) >= 1
    /\ \E r \in 1..Len(df.rows) : df.rows[r] = <<Occ10, SocAB>>
    /\ \E r \in 1..Len(df.rows) : df.rows[r][2] \in {Junk, NaN}

\* the (row, token) positions of a frame whose token normalizes to a SOC code
SocTokens(rows) ==
    {p \in UNION {{<<r, k>> : k \in 1..Len(split_tokens(rows[r].soc_raw))} : r \in 1..Len(rows)} :
        IsSocCode(normalize_soc_token(split_tokens(rows[p[1]].soc_raw)[p[2]]))}

\* the row that a token position of a frame gives
TokenRow(rows, p) ==
    [rows[p[1]] EXCEPT !.soc = normalize_soc_token(split_tokens(rows[p[1]].soc_raw)[p[2]])]

\* C11: under the expand policy the SOC normalization turns the rows with a valid occ
\* into exactly one row per token that normalizes to NN-NNNN (same occ, soc the
\* normalized token): a token that does not normalize is discarded alone, and a row
\* without a normalizable token gives no row.
C11_ExpandOneRowPerToken ==
    [][(prog = "autodetect" /\ pc = "normalize_soc" /\ allow_multi_soc) =>
          /\ Len(pairs') = Cardinality(SocTokens(pairs))
          /\ \A p \in SocTokens(pairs) :
                Cardinality({q \in 1..Len(pairs') : pairs'[q] = TokenRow(pairs, p)})
                = Cardinality({x \in SocTokens(pairs) : TokenRow(pairs, x) = TokenRow(pairs, p)})
          /\ \A q \in 1..Len(pairs') :
                \E p \in SocTokens(pairs) : pairs'[q] = TokenRow(pairs, p)]_vars

\* an expand build kept the valid token of a cell whose other token does not normalize,
\* two rows of a two-token cell, and no row of a cell without a valid token
C11_Witness ==
    /\ prog = "autodetect" /\ pc = "resolve" /\ allow_multi_soc
    /\ Len(pairs) = 3
    /\ \E r \in 1..Len(df.rows) : df.rows[r] = <<Occ10, Junk>>
    /\ \E q \in 1..Len(pairs) :
          pairs[q].soc_raw = SocMixed /\ pairs[q].soc = <<"1", "1", "-", "1", "0", "2", "2">>

\* the first run of 4 digits of a cell, and the first NN-NNNN of a cell
CodeOcc(v) == str_extract(str(v), <<AsciiDigits, AsciiDigits, AsciiDigits, AsciiDigits>>)

CodeSoc(v) ==
    str_extract(str(v), <<AsciiDigits, AsciiDigits, {"-"},
                          AsciiDigits, AsciiDigits, AsciiDigits, AsciiDigits>>)

\* the rows of the code list that hold an occ and a soc
Candidates == {r \in 1..Len(df.rows) : CodeOcc(df.rows[r][1]) # NaN /\ CodeSoc(df.rows[r][2]) # NaN}

\* the candidate of an occ that is preferred: minor-group suffix not 0000 before 0000,
\* then first in row order
Preferred(occ) ==
    LET mine == {r \in Candidates : CodeOcc(df.rows[r][1]) = occ}
        specific == {r \in mine : ~endswith0000(CodeSoc(df.rows[r][2]))}
    IN  IF specific # {} THEN SetMin(specific) ELSE SetMin(mine)

\* C12: the preferred-code build outputs exactly one row per occ of the code list, with
\* the soc of the preferred candidate of that occ: one whose suffix is not 0000 if the
\* occ has one, and the first in row order among equally preferred candidates.
C12_PreferredCode ==
    (prog = "file" /\ pc = "done") =>
        /\ \A r \in Candidates :
              LET occ == CodeOcc(df.rows[r][1])
                  mine == {q \in 1..Len(out.rows) : out.rows[q].occ = occ}
              IN  /\ Cardinality(mine) = 1
                  /\ \A q \in mine : out.rows[q].soc = CodeSoc(df.rows[Preferred(occ)][2])
        /\ \A q \in 1..Len(out.rows) :
              \E r \in Candidates : out.rows[q].occ = CodeOcc(df.rows[r][1])

\* C13: the table a build returns or writes is in canonical order: ascending occ, rows
\* of equal occ in ascending soc, whatever the order of the rows of the sheet.
C13_CanonicalOrder ==
    \A tbl \in {out, csv} :
        (prog \in {"autodetect", "xwalk"} /\ tbl.some) =>
            \A r \in 1..(Len(tbl.rows) - 1) : ~RowLess(tbl.rows[r + 1], tbl.rows[r])

\* C14: during automatic sheet selection a sheet that cannot be read is skipped: a run
\* over a workbook with a readable sheet that qualifies never ends with the read
\* error, every sheet has been evaluated when the scan picks a sheet, and the search
\* fails only if no readable sheet qualifies.
C14_UnreadableSheetSkipped ==
    (prog \in {"autodetect", "xwalk"} /\ sheet_arg = None) =>
        /\ ((\E k \in 1..Len(workbook) : Qualifies(workbook[k])) => error # "ReadError")
        /\ (prog = "autodetect" /\ pc = "picked" => idx > Len(workbook))
        /\ (prog = "xwalk" /\ error = "exit2" =>
               \A k \in 1..Len(workbook) :
                   workbook[k].readable => ~Chosen(score_columns(Frame(workbook[k]))))

\* the positions of the first cap non-null cells of a column, in row order
Sampled(series, cap) ==
    {k \in 1..Len(series) :
        /\ series[k] # NaN
        /\ Cardinality({j \in 1..k : series[j] # NaN}) <= cap}

\* two scores are the same number
SameScore(a, b) == a[1] * b[2] = b[1] * a[2]

\* matching cells / sampled cells, 0 for an empty sample
Share(series, cap, role) ==
    LET smp == Sampled(series, cap)
        Matches(v) == IF role = "occ" THEN is_occ_like(v) ELSE any_soc(v)
    IN  IF smp = {} THEN <<0, 1>>
        ELSE <<Cardinality({k \in smp : Matches(series[k])}), Cardinality(smp)>>

InUnit(x) == 0 <= x[1] /\ x[1] <= x[2]

\* the fraction of the cells of a column, nulls apart, that match a role's patterns
ContentShare(frame, name, role) ==
    LET series == Column(frame, ColIndex(frame, name))
        cells == {k \in 1..Len(series) : series[k] # NaN}
        Matches(v) == IF role = "occ" THEN OCC_VAL(v) ELSE SOC_VAL1(v) \/ SOC_VAL2(v)
    IN  <<Cardinality({k \in cells : Matches(series[k])}), Cardinality(cells)>>

\* C16: the occ and soc scores that column detection reports lie in [0, 1], with the
\* name-hint bonus and for a table without a non-null cell, and a sheet is accepted
\* only if the content fractions of its two columns, without the bonus, are >= 0.5.
C16_ScoresInUnitInterval ==
    prog \in {"autodetect", "xwalk"} =>
        /\ InUnit(det.occ_score)
        /\ InUnit(det.soc_score)
        /\ (prog = "xwalk" /\ pc = "chosen" =>
               /\ ~ScoreBelowHalf(ContentShare(df, det.occ_col, "occ"))
               /\ ~ScoreBelowHalf(ContentShare(df, det.soc_col, "soc")))

\* the number of ASCII digits of a cell, 0 for a null
DigitCount(v) == IF v = NaN THEN 0 ELSE Cardinality({k \in 1..Len(v) : v[k] \in AsciiDigits})

\* C17: clean_map emits a row only for an input row whose occ cell has at least one
\* digit and whose soc cell has at least six digits: every row of the cleaned map is
\* the cleaned form of such a row, so that a null, blank or digit-free occ cell gives
\* no row.
C17_MalformedRowsDropped ==
    (prog = "xwalk" /\ pc \in {"done", "failed"} /\ error # "exit2") =>
        \A q \in 1..Len(pairs) :
            \E r \in 1..Len(df.rows) :
                LET occ_cell == df.rows[r][ColIndex(df, det.occ_col)]
                    soc_cell == df.rows[r][ColIndex(df, det.soc_col)]
                IN  /\ DigitCount(occ_cell) >= 1
                    /\ DigitCount(soc_cell) >= 6
                    /\ pairs[q].occ = clean_occ(occ_cell)
                    /\ pairs[q].soc = clean_soc(soc_cell)

\* C18: the polling loop ends only when a status poll returned completed, failed or
\* canceled, or when the elapsed time exceeds max_wait; a poll that ends with an HTTP
\* error does not end the loop; the download and the metadata write are reached only
\* after a poll returned completed; failed, canceled and a timeout end the run with an
\* error and no download.
C18_PollingLoop ==
    [][prog = "ipums" =>
          /\ (pc = "poll" /\ pc' # "poll" =>
                \/ polled' \in Responses /\ status' \in Terminal /\ polled'.status = status'
                \/ elapsed > max_wait)
          /\ (pc = "poll" /\ elapsed' # elapsed /\ polled' = HTTPError => pc' = "poll")
          /\ (pc' \in {"download", "meta", "done"} \/ downloaded' \/ meta' =>
                polled' \in Responses /\ polled'.status = "completed")
          /\ (pc' = "failed" /\ error' \in {"timeout", "ended"} => ~downloaded' /\ ~meta')]_vars

====
